---- MODULE Spec2Model ----
(***************************************************************************)
(* Model of the Al Jazeera news crawler (libraries/AlJazeeraCrawler.py):   *)
(* the per-item extraction _scrape_news_item and the extraction and        *)
(* pagination loop of _save_news_to_excel.                                 *)
(*                                                                         *)
(* Texts are sequences of one-character strings.  An optional value is a   *)
(* record [some, val]; some = FALSE is Python's None.  A WebElement of the *)
(* result list is the position of its article in the listing.              *)
(***************************************************************************)
EXTENDS Integers, Sequences, FiniteSets, TLC

VARIABLES
    pc,               \* "start", "scanning", "loading", "done", "aborted"
    run,              \* 1: first process run, 2: the re-run in a new process
    prev_df,          \* the rows the first run exported (re-run only)
    hashseed,         \* the process's string-hash key (PYTHONHASHSEED)
    search_term,      \* search_term argument
    today,            \* datetime.today()
    number_of_months, \* number_of_months argument
    min_date,         \* min_date local
    listing,          \* every article the site can reveal, in listing order
    dom,              \* the page: [visible: articles in the DOM, more: button present]
    snapshot,         \* the page as it was when the run started
    news_items,       \* news_items local: queue of article elements
    curr_item,        \* curr_item local
    news_df,          \* news_df local: the accumulated rows
    show_more_button, \* show_more_button local: "unset", "found", "none"
    reached_min,      \* "Reached the minimum date." was logged
    scraped,          \* history: the elements given to _scrape_news_item, in order
    row_item,         \* history: the element each row of news_df came from
    lookups,          \* history: the sub-element lookups made, <<element, name>>
    downloads,        \* history: the urlretrieve calls made, <<element, filename>>
    clicks,           \* history: number of show-more clicks
    fetched,          \* history: length of the last article list assigned to news_items
    last_scrape       \* history: outcome of the last _scrape_news_item call

vars == <<pc, run, prev_df, hashseed, search_term, today, number_of_months,
          min_date, listing, dom, snapshot, news_items, curr_item, news_df,
          show_more_button, reached_min, scraped, row_item, lookups,
          downloads, clicks, fetched, last_scrape>>

(***************************************************************************)
(* Bounds of the model.                                                    *)
(***************************************************************************)
MaxItems == 3
MaxSeed == 1
MaxMonths == 13
MaxTitleLen == 3
MaxDescLen == 2
MaxTermLen == 2

(***************************************************************************)
(* Optional values.                                                        *)
(***************************************************************************)
NoText == [some |-> FALSE, val |-> <<>>]
SomeText(t) == [some |-> TRUE, val |-> t]
ZeroDate == [y |-> 0, m |-> 0, d |-> 0]
NoDate == [some |-> FALSE, val |-> ZeroDate]
SomeDate(dt) == [some |-> TRUE, val |-> dt]
NoDateText == [some |-> FALSE, prefix |-> FALSE, d |-> 0, b |-> "", Y |-> 0]
DateText(p, dd, bb, yy) == [some |-> TRUE, prefix |-> p, d |-> dd, b |-> bb, Y |-> yy]
NoImg == [some |-> FALSE, src |-> FALSE]
Img(s) == [some |-> TRUE, src |-> s]
NoFile == [some |-> FALSE, stem |-> 0, suffix |-> ""]

(***************************************************************************)
(* Calendar arithmetic.                                                    *)
(***************************************************************************)
IsLeap(y) == (y % 4 = 0 /\ y % 100 # 0) \/ y % 400 = 0

DaysInMonth(y, m) ==
    IF m = 2 THEN (IF IsLeap(y) THEN 29 ELSE 28)
    ELSE IF m \in {4, 6, 9, 11} THEN 30 ELSE 31

Min(a, b) == IF a < b THEN a ELSE b

\* datetime.date ordering
DateLT(a, b) ==
    \/ a.y < b.y
    \/ a.y = b.y /\ a.m < b.m
    \/ a.y = b.y /\ a.m = b.m /\ a.d < b.d

MonthAbbr == <<"Jan", "Feb", "Mar", "Apr", "May", "Jun",
               "Jul", "Aug", "Sep", "Oct", "Nov", "Dec">>

\* strptime(text.removeprefix("Last update ").strip(), "%d %b %Y"):
\* ok = FALSE is the ValueError of a text that is no date
ParseDate(t) ==
    IF /\ \E i \in 1..12 : MonthAbbr[i] = t.b
       /\ t.Y >= 1
       /\ t.d >= 1
    THEN LET mm == CHOOSE i \in 1..12 : MonthAbbr[i] = t.b
         IN IF t.d <= DaysInMonth(t.Y, mm)
            THEN [ok |-> TRUE, val |-> [y |-> t.Y, m |-> mm, d |-> t.d]]
            ELSE [ok |-> FALSE, val |-> ZeroDate]
    ELSE [ok |-> FALSE, val |-> ZeroDate]

\* dt - DateOffset(months=k): dt + relativedelta(months=-k).  relativedelta
\* carries whole years out of the months, adds years and months with one
\* borrow, and clips the day to the length of the month reached.
SubtractMonths_noborrow(dt, k) ==
    LET years == k \div 12
        months == k % 12
        y1 == dt.y - years
        m1 == dt.m - months
        m2 == IF m1 < 1 THEN m1 + 12 ELSE m1
    IN [y |-> y1, m |-> m2, d |-> Min(dt.d, DaysInMonth(y1, m2))]

SubtractMonths(dt, k) ==
    LET years == k \div 12
        months == k % 12
        y1 == dt.y - years
        m1 == dt.m - months
        y2 == IF m1 < 1 THEN y1 - 1 ELSE y1
        m2 == IF m1 < 1 THEN m1 + 12 ELSE m1
    IN [y |-> y2, m |-> m2, d |-> Min(dt.d, DaysInMonth(y2, m2))]

\* min_date of _save_news_to_excel
MinDate(t, n) ==
    LET shifted == IF n > 0 THEN SubtractMonths(t, n - 1) ELSE t
    IN [shifted EXCEPT !.d = 1]

(***************************************************************************)
(* Text functions.                                                         *)
(***************************************************************************)
Digits == {"0", "1", "2", "5"}

\* str.lower(), one character
LowerChar(c) ==
    CASE c = "A" -> "a"
      [] c = "B" -> "b"
      [] c = "D" -> "d"
      [] c = "S" -> "s"
      [] c = "U" -> "u"
      [] OTHER -> c

Lower(s) == [i \in 1..Len(s) |-> LowerChar(s[i])]

\* s[i:].startswith(w), i counted from 1
HasAt(s, i, w) ==
    /\ i + Len(w) - 1 <= Len(s)
    /\ SubSeq(s, i, i + Len(w) - 1) = w

\* str.count(sub) scanning s from position i: the occurrences found left to
\* right, each search resuming after the end of the previous occurrence;
\* the empty sub occurs len(s) + 1 times
RECURSIVE CountFrom(_, _, _)
CountFrom(s, sub, i) ==
    IF sub = <<>> THEN Len(s) + 2 - i
    ELSE IF i + Len(sub) - 1 > Len(s) THEN 0
    ELSE IF HasAt(s, i, sub) THEN 1 + CountFrom(s, sub, i + Len(sub))
    ELSE CountFrom(s, sub, i + 1)

StrCount_overlapping(s, sub) ==
    Cardinality({i \in 1..(Len(s) + 1) : HasAt(s, i, sub)})

StrCount(s, sub) == CountFrom(s, sub, 1)

\* search_phrase_count of _scrape_news_item; title is a non-empty text
SearchPhraseCount(title, description, term) ==
    StrCount(Lower(title), Lower(term))
    + (IF description.some /\ description.val # <<>>
       THEN StrCount(Lower(description.val), Lower(term))
       ELSE 0)

\* money_pattern.findall(text) is not empty:
\* (\$[\d,]+(\.\d+)?|\d+ dollars|\d+ USD) matches somewhere in text
MoneyFound(text) ==
    \E i \in 1..Len(text) :
        \/ /\ text[i] = "$"
           /\ i < Len(text)
           /\ text[i + 1] \in Digits \cup {","}
        \/ /\ text[i] \in Digits
           /\ HasAt(text, i + 1, <<" ", "d", "o", "l", "l", "a", "r", "s">>)
        \/ /\ text[i] \in Digits
           /\ HasAt(text, i + 1, <<" ", "U", "S", "D">>)

\* the characters of the model's texts, for the string hash
CharCodes == <<"a", "A", "b", "B", "$", "0", "1", "2", "5", ",", ".", " ",
               "d", "o", "l", "r", "s", "U", "S", "D", "n">>

Ord(c) == CHOOSE i \in 1..Len(CharCodes) : CharCodes[i] = c

\* hash(title): Python's string hash is keyed by a per-process random key
RECURSIVE HashFrom(_, _, _)
HashFrom(t, i, h) ==
    IF i > Len(t) THEN h
    ELSE HashFrom(t, i + 1, (h * 31 + Ord(t[i])) % (2 ^ 16))

StrHash(t, seed) == HashFrom(t, 1, (seed * 7919) % (2 ^ 16))

\* picture_filepath.name: f"{title_hash}.png"
PictureFile(title, seed) ==
    [some |-> TRUE, stem |-> StrHash(title, seed), suffix |-> ".png"]

(***************************************************************************)
(* _scrape_news_item.                                                      *)
(***************************************************************************)
EmptyRow ==
    [title |-> <<>>, date |-> NoDate, description |-> NoText,
     picture_filename |-> NoFile, search_phrase_count |-> 0,
     has_money |-> FALSE]

Outcome(st, r, c, lk, dl) ==
    [status |-> st, row |-> r, count |-> c, looked |-> lk, download |-> dl]

NoOutcome == Outcome("unset", EmptyRow, 0, {}, NoFile)

\* "if not title": the link is missing or its text is empty
TitleMissing_onlynone(title) == ~title.some

TitleMissing(title) == ~title.some \/ title.val = <<>>

\* The outcome of one call: status "row" (a dict is returned), "none" (None
\* is returned), "ValueError" (strptime raised) or "TypeError" (findall(None)
\* raised); looked and download are the lookups and the urlretrieve made
\* before the call ended.
ScrapeNewsItem(item, term, seed) ==
    IF TitleMissing(item.title)
    THEN Outcome("none", EmptyRow, 0, {"title"}, NoFile)
    ELSE
    LET title == item.title.val
        parsed == ParseDate(item.date)
    IN  IF item.date.some /\ ~parsed.ok
        THEN Outcome("ValueError", EmptyRow, 0, {"title", "date"}, NoFile)
        ELSE
        LET date == IF item.date.some THEN SomeDate(parsed.val) ELSE NoDate
            description == item.description
            file == IF item.img.some THEN PictureFile(title, seed) ELSE NoFile
            download == IF item.img.some /\ item.img.src THEN file ELSE NoFile
            count == SearchPhraseCount(title, description, term)
            all == {"title", "date", "description", "img"}
            row == [title |-> title, date |-> date,
                    description |-> description,
                    picture_filename |-> file,
                    search_phrase_count |-> count,
                    has_money |-> FALSE]
        IN  IF MoneyFound(title)
            THEN Outcome("row", [row EXCEPT !.has_money = TRUE], count, all, download)
            ELSE IF ~description.some
            THEN Outcome("TypeError", EmptyRow, count, all, download)
            ELSE Outcome("row",
                         [row EXCEPT !.has_money = MoneyFound(description.val)],
                         count, all, download)

(***************************************************************************)
(* _save_news_to_excel: the extraction and pagination loop.                *)
(***************************************************************************)
\* new_row["date"] and new_row["date"].date() < min_date.date()
IsBeforeCutoff_swapped(row, md) == row.date.some /\ DateLT(md, row.date.val)

IsBeforeCutoff(row, md) == row.date.some /\ DateLT(row.date.val, md)

\* find_elements(".//article") on a page showing n articles
FindArticles(n) == [i \in 1..n |-> i]

\* news_items[curr_item:]
Unprocessed_noslice(items, curr) == items

Unprocessed(items, curr) == SubSeq(items, curr + 1, Len(items))

\* the lookup of the show-more button once the queue is empty
ButtonLookup_never(queue, more) == "none"

ButtonLookup(queue, more) == IF more THEN "found" ELSE "none"

\* no listing holds more than MaxItems articles: the guard caps curr_item
ScanCap == MaxItems + 2

\* line 210 to 221: the cutoff, the empty frame, the first article list
Start ==
    /\ pc = "start"
    /\ min_date' = MinDate(today, number_of_months)
    /\ news_df' = <<>>
    /\ curr_item' = 0
    /\ news_items' = FindArticles(dom.visible)
    /\ fetched' = dom.visible
    /\ pc' = "scanning"
    /\ UNCHANGED <<run, prev_df, hashseed, search_term, today,
                   number_of_months, listing, dom, snapshot,
                   show_more_button, reached_min, scraped, row_item, lookups,
                   downloads, clicks, last_scrape>>

\* line 222 to 241: one iteration of the loop, up to the show-more lookup;
\* a break runs on to the export of line 249
ScrapeStep ==
    /\ pc = "scanning"
    /\ news_items # <<>>
    /\ curr_item < ScanCap
    /\ LET e == Head(news_items)
           rest == Tail(news_items)
           out == ScrapeNewsItem(listing[e], search_term, hashseed)
       IN  /\ scraped' = Append(scraped, e)
           /\ lookups' = lookups \cup {<<e, n>> : n \in out.looked}
           /\ downloads' = IF out.download.some
                           THEN downloads \cup {<<e, out.download>>}
                           ELSE downloads
           /\ last_scrape' = out
           /\ news_items' = rest
           /\ IF out.status \in {"ValueError", "TypeError"}
              THEN /\ pc' = "aborted"
                   /\ UNCHANGED <<news_df, row_item, curr_item,
                                  show_more_button, reached_min>>
              ELSE IF out.status = "row" /\ IsBeforeCutoff(out.row, min_date)
              THEN /\ reached_min' = TRUE
                   /\ pc' = "done"
                   /\ UNCHANGED <<news_df, row_item, curr_item,
                                  show_more_button>>
              ELSE /\ news_df' = IF out.status = "row"
                                 THEN Append(news_df, out.row) ELSE news_df
                   /\ row_item' = IF out.status = "row"
                                  THEN Append(row_item, e) ELSE row_item
                   /\ curr_item' = curr_item + 1
                   /\ show_more_button' =
                          IF rest = <<>> THEN ButtonLookup(rest, dom.more)
                          ELSE show_more_button
                   /\ pc' = IF rest = <<>> /\ show_more_button' = "found"
                            THEN "loading" ELSE "scanning"
                   /\ UNCHANGED reached_min
    /\ UNCHANGED <<run, prev_df, hashseed, search_term, today,
                   number_of_months, min_date, listing, dom, snapshot,
                   clicks, fetched>>

\* line 242 to 247: the click, the site's answer during the sleep (it
\* reveals k more articles and keeps or drops the button), the new list
LoadMore ==
    /\ pc = "loading"
    /\ \E k \in 0..(Len(listing) - dom.visible), m \in BOOLEAN :
           /\ dom' = [visible |-> dom.visible + k, more |-> m]
           /\ news_items' = Unprocessed(FindArticles(dom.visible + k), curr_item)
           /\ fetched' = Len(news_items')
    /\ clicks' = clicks + 1
    /\ pc' = "scanning"
    /\ UNCHANGED <<run, prev_df, hashseed, search_term, today,
                   number_of_months, min_date, listing, snapshot, curr_item,
                   news_df, show_more_button, reached_min, scraped, row_item,
                   lookups, downloads, last_scrape>>

\* line 222 and 249: the queue is empty, the loop ends, the rows are exported
ExitLoop ==
    /\ pc = "scanning"
    /\ news_items = <<>>
    /\ pc' = "done"
    /\ UNCHANGED <<run, prev_df, hashseed, search_term, today,
                   number_of_months, min_date, listing, dom, snapshot,
                   news_items, curr_item, news_df, show_more_button,
                   reached_min, scraped, row_item, lookups, downloads,
                   clicks, fetched, last_scrape>>

\* the task run again in a new process on the same page snapshot
Rerun ==
    /\ pc = "done"
    /\ run = 1
    /\ run' = 2
    /\ prev_df' = news_df
    /\ hashseed' \in 0..MaxSeed
    /\ dom' = snapshot
    /\ pc' = "start"
    /\ min_date' = ZeroDate
    /\ news_items' = <<>>
    /\ curr_item' = 0
    /\ news_df' = <<>>
    /\ show_more_button' = "unset"
    /\ reached_min' = FALSE
    /\ scraped' = <<>>
    /\ row_item' = <<>>
    /\ lookups' = {}
    /\ downloads' = {}
    /\ clicks' = 0
    /\ fetched' = 0
    /\ last_scrape' = NoOutcome
    /\ UNCHANGED <<search_term, today, number_of_months, listing, snapshot>>

Next == Start \/ ScrapeStep \/ LoadMore \/ ExitLoop

NextRerun == Next \/ Rerun

(***************************************************************************)
(* Initial states.                                                         *)
(***************************************************************************)
Item(t, dt, de, im) == [title |-> t, date |-> dt, description |-> de, img |-> im]

SeqsUpTo(S, n) == UNION {[1..k -> S] : k \in 0..n}

\* the locals and the history before _save_news_to_excel runs
Fresh ==
    /\ pc = "start"
    /\ run = 1
    /\ prev_df = <<>>
    /\ min_date = ZeroDate
    /\ news_items = <<>>
    /\ curr_item = 0
    /\ news_df = <<>>
    /\ show_more_button = "unset"
    /\ reached_min = FALSE
    /\ scraped = <<>>
    /\ row_item = <<>>
    /\ lookups = {}
    /\ downloads = {}
    /\ clicks = 0
    /\ fetched = 0
    /\ last_scrape = NoOutcome

LoopToday == [y |-> 2024, m |-> 3, d |-> 15]

\* the article cards of the loop's listings: a recent article, one of the
\* previous month, a dateless one with a price in its title, a card with no
\* title link, a card with an empty title, a dateless one without description
LoopItems ==
    { Item(SomeText(<<"a", "A">>), DateText(TRUE, 1, "Mar", 2024),
           SomeText(<<"a">>), Img(TRUE)),
      Item(SomeText(<<"b">>), DateText(FALSE, 29, "Feb", 2024),
           SomeText(<<"b">>), Img(FALSE)),
      Item(SomeText(<<"$", "1">>), NoDateText, NoText, NoImg),
      Item(NoText, DateText(FALSE, 29, "Feb", 2024),
           SomeText(<<"a">>), Img(TRUE)),
      Item(SomeText(<<>>), DateText(FALSE, 1, "Mar", 2024),
           SomeText(<<"a">>), Img(TRUE)),
      Item(SomeText(<<"b">>), NoDateText, NoText, Img(TRUE)) }

\* the hash key names the pictures only: it varies in the runs that read it
Init ==
    /\ Fresh
    /\ hashseed = 0
    /\ search_term = <<"a">>
    /\ today = LoopToday
    /\ number_of_months \in {1, 2}
    /\ listing \in SeqsUpTo(LoopItems, MaxItems)
    /\ dom \in [visible : 0..Len(listing), more : BOOLEAN]
    /\ snapshot = dom

Spec == Init /\ [][Next]_vars

\* one card for each way an iteration can end: a row kept, a row before
\* the cutoff, a card skipped, an exception
FairItems ==
    {it \in LoopItems :
        \/ it.title.some /\ it.date.some /\ it.title.val # <<>>
        \/ ~it.title.some
        \/ it.title.some /\ ~it.date.some /\ it.img.some}

InitFair ==
    /\ Fresh
    /\ hashseed = 0
    /\ search_term = <<"a">>
    /\ today = LoopToday
    /\ number_of_months \in {1, 2}
    /\ listing \in SeqsUpTo(FairItems, MaxItems)
    /\ dom \in [visible : 0..Len(listing), more : BOOLEAN]
    /\ snapshot = dom

\* the loop is sequential code: it always takes its next step
FairSpec == InitFair /\ [][Next]_vars /\ WF_vars(Next)

\* a static page: every article of the listing is already in the DOM
InitRerun ==
    /\ Fresh
    /\ hashseed \in 0..MaxSeed
    /\ search_term = <<"a">>
    /\ today = LoopToday
    /\ number_of_months \in {1, 2}
    /\ listing \in SeqsUpTo(LoopItems, MaxItems - 1)
    /\ dom \in [visible : {Len(listing)}, more : BOOLEAN]
    /\ snapshot = dom

SpecRerun == InitRerun /\ [][NextRerun]_vars

(***************************************************************************)
(* Initial states for the cutoff: every month, the days at which months    *)
(* differ, every lookback from 0 to MaxMonths.  The listing holds an       *)
(* article dated the 1st of the current month, then one dated the last     *)
(* day of the month before.                                                *)
(***************************************************************************)
MonthIndex(dt) == dt.y * 12 + dt.m - 1

FirstOfMonthAt(i) == [y |-> i \div 12, m |-> (i % 12) + 1, d |-> 1]

LastOfMonthAt(i) ==
    [y |-> i \div 12, m |-> (i % 12) + 1,
     d |-> DaysInMonth(i \div 12, (i % 12) + 1)]

ArticleDated(dt) ==
    Item(SomeText(<<"$", "1">>), DateText(FALSE, dt.d, MonthAbbr[dt.m], dt.y),
         NoText, NoImg)

CutoffTodays ==
    {t \in [y : {2023, 2024}, m : 1..12, d : {1, 15, 28, 29, 30, 31}] :
        t.d <= DaysInMonth(t.y, t.m)}

InitCutoff ==
    /\ Fresh
    /\ hashseed = 0
    /\ search_term = <<"a">>
    /\ today \in CutoffTodays
    /\ number_of_months \in 0..MaxMonths
    /\ listing = <<ArticleDated(FirstOfMonthAt(MonthIndex(today))),
                   ArticleDated(LastOfMonthAt(MonthIndex(today) - 1))>>
    /\ dom \in [visible : {2}, more : BOOLEAN]
    /\ snapshot = dom

SpecCutoff == InitCutoff /\ [][Next]_vars

(***************************************************************************)
(* Initial states for one article card: every short title, description    *)
(* and search term over a mixed-case alphabet, and every combination of    *)
(* present and missing sub-elements.                                       *)
(***************************************************************************)
Texts(A, lo, hi) == UNION {[1..k -> A] : k \in lo..hi}

PricedTitles ==
    { <<"$", "1", "a", "a", "a">>, <<"A", "a", "$", "5">> }

CountItems ==
    { Item(SomeText(t), NoDateText, de, NoImg) :
        t \in Texts({"a", "A", "b"}, 0, MaxTitleLen) \cup PricedTitles,
        de \in {NoText} \cup
               {SomeText(x) : x \in Texts({"a", "A", "b"}, 0, MaxDescLen)} }

OptionalItems ==
    { Item(t, dt, de, im) :
        t \in { NoText, SomeText(<<>>),
                SomeText(<<"$", "1", ",", "2", "0", "0">>),
                SomeText(<<"5", "0", " ", "d", "o", "l", "l", "a", "r", "s">>),
                SomeText(<<"5", " ", "U", "S", "D">>),
                SomeText(<<"n", "o", " ", "d", "o", "l", "l", "a", "r", "s">>) },
        dt \in { NoDateText, DateText(TRUE, 1, "Mar", 2024),
                 DateText(FALSE, 30, "Feb", 2024) },
        de \in { NoText, SomeText(<<"b">>), SomeText(<<"$", "5">>) },
        im \in { NoImg, Img(TRUE), Img(FALSE) } }

InitScrape ==
    /\ Fresh
    /\ today = LoopToday
    /\ number_of_months = 1
    /\ \/ /\ listing \in {<<it>> : it \in CountItems}
          /\ search_term \in Texts({"a", "A"}, 0, MaxTermLen)
          /\ hashseed = 0
          /\ dom = [visible |-> 1, more |-> FALSE]
       \/ /\ listing \in {<<it>> : it \in OptionalItems}
          /\ search_term = <<"a">>
          /\ hashseed \in 0..MaxSeed
          /\ dom \in [visible : {1}, more : BOOLEAN]
    /\ snapshot = dom

SpecScrape == InitScrape /\ [][Next]_vars

(***************************************************************************)
(* Properties.                                                             *)
(***************************************************************************)
Last(q) == q[Len(q)]

Titled(it) == it.title.some /\ Len(it.title.val) > 0

\* the date an article card shows, read off the card
CardDate(it) == [y |-> it.date.Y,
                 m |-> CHOOSE i \in 1..12 : MonthAbbr[i] = it.date.b,
                 d |-> it.date.d]

\* the rows kept and the state at the cutoff
C1_Rows ==
    /\ \A i \in 1..Len(news_df) :
           \/ ~news_df[i].date.some
           \/ ~DateLT(news_df[i].date.val, min_date)
    /\ (last_scrape.status = "row" /\ last_scrape.row.date.some
            /\ DateLT(last_scrape.row.date.val, min_date))
           => (reached_min /\ pc = "done")
    /\ reached_min =>
           /\ pc = "done"
           /\ DateLT(CardDate(listing[Last(scraped)]), min_date)
           /\ \A i \in 1..Len(row_item) : row_item[i] # Last(scraped)

\* C1: every accumulated row has a null date or a date on or after the
\* cutoff; a row dated before the cutoff ends the scan at once: it is not
\* appended, the cutoff is logged, the run is done, and from then on no item
\* is scraped, no show-more is clicked and no row is added.
C1_StopsAtCutoff ==
    /\ []C1_Rows
    /\ [][reached_min =>
              (scraped' = scraped /\ clicks' = clicks /\ news_df' = news_df)]_vars

C1_Witness ==
    /\ reached_min
    /\ Len(news_df) >= 1
    /\ news_items # <<>>
    /\ dom.more

\* C2: a titled item whose date, if present, is well formed always yields a
\* row, whatever optional sub-elements it lacks: a missing date, description
\* or image makes only that field null, a missing description without a
\* currency match in the title gives has_money = FALSE, and the run is not
\* aborted.
C2_OptionalDegrades ==
    (Len(scraped) = 1 /\ Titled(listing[1])
        /\ (listing[1].date.some => ParseDate(listing[1].date).ok))
    => /\ pc # "aborted"
       /\ last_scrape.status = "row"
       /\ last_scrape.row.date.some = listing[1].date.some
       /\ last_scrape.row.description = listing[1].description
       /\ last_scrape.row.picture_filename.some = listing[1].img.some
       /\ (~listing[1].description.some /\ ~MoneyFound(listing[1].title.val))
              => ~last_scrape.row.has_money

\* C3: a titled item without a date element yields a row with a null date
\* that is appended, and it does not end the scan.
C3_DatelessKept ==
    (scraped # <<>> /\ Titled(listing[Last(scraped)])
        /\ ~listing[Last(scraped)].date.some)
    => /\ pc # "aborted"
       /\ ~reached_min
       /\ row_item # <<>>
       /\ Last(row_item) = Last(scraped)
       /\ ~Last(news_df).date.some

\* C4: an item whose title link is missing or whose title text is empty
\* yields no row: the step that scrapes it leaves the rows and the downloads
\* unchanged, looks up the title and nothing else, counts the item as
\* processed, and the scan goes on.
C4_UntitledSkipped ==
    [][(pc = "scanning" /\ news_items # <<>>
            /\ ~Titled(listing[Head(news_items)]))
       => /\ news_df' = news_df
          /\ row_item' = row_item
          /\ downloads' = downloads
          /\ lookups' = lookups \cup {<<Head(news_items), "title">>}
          /\ scraped' = Append(scraped, Head(news_items))
          /\ curr_item' = curr_item + 1
          /\ ~reached_min'
          /\ pc' \in {"scanning", "loading"}]_vars

C4_Witness ==
    /\ Len(scraped) >= 2
    /\ ~Titled(listing[scraped[1]])
    /\ listing[scraped[1]].title.some
    /\ curr_item >= 2
    /\ Len(news_df) >= 1

\* C5: the cutoff is the first day of the month N-1 months before the
\* current month for N >= 1 and of the current month for N = 0, across year
\* ends; the article dated the 1st of the current month is retained, the one
\* dated the last day of the month before is retained exactly when N >= 2.
C5_Cutoff ==
    /\ pc # "start" =>
           min_date = FirstOfMonthAt(MonthIndex(today)
                          - (IF number_of_months >= 1
                             THEN number_of_months - 1 ELSE 0))
    /\ pc = "done" =>
           /\ \E i \in 1..Len(row_item) : row_item[i] = 1
           /\ (\E i \in 1..Len(row_item) : row_item[i] = 2)
                  <=> number_of_months >= 2

C5_Witness ==
    /\ pc = "done"
    /\ today.m = 1
    /\ number_of_months = 2
    /\ min_date.y = today.y - 1
    /\ Len(news_df) = 2

\* C6: the items are scraped once each in listing order, none twice and none
\* skipped, across the show-more rounds: the scraped elements are 1, 2, 3,
\* ..., the queue holds exactly the visible items not yet processed, a scan
\* that ends without the cutoff has scraped every visible item, and the rows
\* are in listing order.
C6_OnceInOrder ==
    /\ \A i \in 1..Len(scraped) : scraped[i] = i
    /\ Len(scraped) = curr_item
                      + (IF pc = "aborted" \/ reached_min THEN 1 ELSE 0)
    /\ pc = "scanning" =>
           news_items = [i \in 1..(dom.visible - curr_item) |-> curr_item + i]
    /\ (pc = "done" /\ ~reached_min) => Len(scraped) = dom.visible
    /\ Len(row_item) = Len(news_df)
    /\ \A i \in 1..Len(row_item) :
           /\ news_df[i].title = listing[row_item[i]].title.val
           /\ \A j \in 1..Len(row_item) : i < j => row_item[i] < row_item[j]

C6_Witness ==
    /\ pc = "done"
    /\ clicks >= 2
    /\ Len(scraped) = 3
    /\ Len(news_df) >= 2

\* C7 as stated: the scan is done only when the cutoff has been reached or
\* the page has no show-more button.
C7_DoneOnlyAtCutoffOrNoButton ==
    pc = "done" => (reached_min \/ ~dom.more)

\* the ways the scan ends
C7_DoneCases ==
    pc = "done" =>
        \/ reached_min
        \/ show_more_button = "none" /\ ~dom.more
        \/ fetched = 0 /\ news_items = <<>>

\* C7 as amended: when an iteration empties the queue without reaching the
\* cutoff and the button is on the page, the button is clicked and scanning
\* resumes; the scan is done only when the cutoff has been reached, or the
\* button was looked up and not found, or the last article list fetched (the
\* initial one, or the one after a click) held no unprocessed item.
C7_StateMachine ==
    /\ []C7_DoneCases
    /\ [][(pc = "scanning" /\ news_items # <<>> /\ news_items' = <<>>
               /\ pc' # "aborted" /\ ~reached_min' /\ dom.more)
          => pc' = "loading"]_vars
    /\ [][pc = "loading" => (pc' = "scanning" /\ clicks' = clicks + 1)]_vars

C7_Witness ==
    /\ pc = "done"
    /\ ~reached_min
    /\ dom.more
    /\ show_more_button = "found"
    /\ fetched = 0
    /\ Len(scraped) >= 1

\* C8: a second run on the same page snapshot, with the same search term,
\* lookback and current date, exports the same rows as the first,
\* picture_filename included.
C8_SameRows ==
    (run = 2 /\ pc = "done") => news_df = prev_df

\* the occurrences of sub in s, letter case ignored
OccCI(s, sub) ==
    {i \in 1..(Len(s) - Len(sub) + 1) :
        \A j \in 1..Len(sub) : LowerChar(s[i + j - 1]) = LowerChar(sub[j])}

\* the largest number of occurrences no two of which overlap
MaxDisjoint(O, m) ==
    CHOOSE n \in 0..Cardinality(O) :
        /\ \E S \in SUBSET O :
               /\ Cardinality(S) = n
               /\ \A a, b \in S : a < b => a + m <= b
        /\ \A S \in SUBSET O :
               (\A a, b \in S : a < b => a + m <= b) => Cardinality(S) <= n

\* C9 as stated, for a row returned and a search term that is not empty:
\* search_phrase_count is the number of occurrences of the term in the title
\* plus that in the description (0 for a null description), overlapping
\* occurrences counted.
C9_CountsOverlapping ==
    (last_scrape.status = "row" /\ Titled(listing[1])
        /\ ~listing[1].date.some /\ search_term # <<>>)
    => last_scrape.count =
           Cardinality(OccCI(listing[1].title.val, search_term))
           + (IF listing[1].description.some
              THEN Cardinality(OccCI(listing[1].description.val, search_term))
              ELSE 0)

\* C9 as amended: search_phrase_count is the number of non-overlapping
\* occurrences of the term in the title plus that in the description (0 for
\* a null or empty description), letter case ignored, the two counted apart;
\* the row returned carries that value.
C9_CountsDisjoint ==
    (Len(scraped) = 1 /\ Titled(listing[1]) /\ ~listing[1].date.some)
    => /\ last_scrape.count =
              MaxDisjoint(OccCI(listing[1].title.val, search_term),
                          Len(search_term))
              + (IF listing[1].description.some
                    /\ listing[1].description.val # <<>>
                 THEN MaxDisjoint(OccCI(listing[1].description.val, search_term),
                                  Len(search_term))
                 ELSE 0)
       /\ last_scrape.status = "row" =>
              last_scrape.row.search_phrase_count = last_scrape.count

C9_Witness ==
    /\ last_scrape.status = "row"
    /\ search_term = <<"a", "A">>
    /\ listing[1].title.val = <<"A", "a", "a">>
    /\ listing[1].description.val = <<"a", "a">>
    /\ last_scrape.row.search_phrase_count = 2

\* C10: the loop ends, by the export or by an exception; every iteration
\* breaks, raises or increases curr_item; a click that reveals nothing ends
\* the loop.
C10_Terminates ==
    /\ <>(pc \in {"done", "aborted"})
    /\ [][(pc = "scanning" /\ news_items # <<>>)
          => (curr_item' = curr_item + 1 \/ pc' \in {"done", "aborted"})]_vars
    /\ [][(pc = "loading" /\ dom'.visible = dom.visible)
          => (news_items' = <<>> /\ pc' = "scanning")]_vars

C10_Witness ==
    /\ pc = "done"
    /\ ~reached_min
    /\ clicks = 2
    /\ dom.more
    /\ dom.visible = 2
    /\ Len(listing) = 3

====
